---- MODULE Spec2Model ----
(***************************************************************************)
(* Model of the bounded-context agent of src/naive-mitigated-agent.py:     *)
(* the LangGraph state machine planner -> tools -> compact -> planner,     *)
(* with the tools of src/common.py.                                        *)
(*                                                                         *)
(* Strings are run-length encoded: a string is a sequence of runs          *)
(* [ch, n] (n >= 1 copies of character ch), adjacent runs having           *)
(* different characters.  This keeps the lengths of the source (4000       *)
(* characters of clipped tool output, 1200 characters of memory) exact.    *)
(*                                                                         *)
(* AgentState declares no reducer for any key (lines 28-32), so a node's   *)
(* return value REPLACES the keys it names; this is why planner and        *)
(* compactor return state["messages"] + [...].  ToolNode returns           *)
(* {"messages": [one ToolMessage per tool call]}.                          *)
(***************************************************************************)
EXTENDS Integers, Sequences, FiniteSets, TLC

\* ---------------------------------------------------------------- bounds
MaxClipRuns == 2       \* runs in a raw string given to the clip on its own
MaxN == 2              \* work units (companies) in a run: 0..MaxN
MaxToolCalls == 2      \* tool calls in one planning response: 0..MaxToolCalls
MaxRespLines == 3      \* lines in one summarization response: 1..MaxRespLines

\* ------------------------------------------------------ program constants
max_tool_chars == 4000     \* memory_compactor_node(llm, max_tool_chars=4000)
max_memory_chars == 1200   \* "updated memory paragraph (<= 1200 chars)"
MaxBullets == 3            \* [...][:3]
ReportLen == 150000        \* random_financial_data(length=150000)
MonteCarloRows == 100      \* for run in range(100)
MonteCarloRowLen == 74     \* one "Run_nnn: mean_return=..." row and its newline
MonteCarloLen == MonteCarloRows * MonteCarloRowLen

\* ---------------------------------------------------------------- strings
Run(c, k) == [ch |-> c, n |-> k]

EmptyStr == <<>>

RECURSIVE StrLen(_)
StrLen(s) == IF s = <<>> THEN 0 ELSE s[1].n + StrLen(Tail(s))

\* s + t
Cat(s, t) ==
    IF s = <<>> THEN t
    ELSE IF t = <<>> THEN s
    ELSE IF s[Len(s)].ch = t[1].ch
         THEN SubSeq(s, 1, Len(s) - 1)
                \o <<Run(t[1].ch, s[Len(s)].n + t[1].n)>> \o Tail(t)
         ELSE s \o t

NL == <<Run("\n", 1)>>

IsSpace(c) == c \in {" ", "\n"}

RECURSIVE LStrip(_)
LStrip(s) == IF s # <<>> /\ IsSpace(s[1].ch) THEN LStrip(Tail(s)) ELSE s

RECURSIVE RStrip(_)
RStrip(s) ==
    IF s # <<>> /\ IsSpace(s[Len(s)].ch)
    THEN RStrip(SubSeq(s, 1, Len(s) - 1)) ELSE s

\* str.strip()
Strip(s) == RStrip(LStrip(s))

\* s[:m + 1]
RECURSIVE Prefix_inclusive(_, _)
Prefix_inclusive(s, m) ==
    IF m < 0 \/ s = <<>> THEN <<>>
    ELSE IF s[1].n >= m + 1 THEN <<Run(s[1].ch, m + 1)>>
    ELSE <<s[1]>> \o Prefix_inclusive(Tail(s), m - s[1].n)

\* s[:m] for m >= 0
RECURSIVE Prefix(_, _)
Prefix(s, m) ==
    IF m <= 0 \/ s = <<>> THEN <<>>
    ELSE IF s[1].n >= m THEN <<Run(s[1].ch, m)>>
    ELSE <<s[1]>> \o Prefix(Tail(s), m - s[1].n)

\* "\n".join(parts)
RECURSIVE JoinLines(_)
JoinLines(parts) ==
    IF Len(parts) = 0 THEN <<>>
    ELSE IF Len(parts) = 1 THEN parts[1]
    ELSE Cat(Cat(parts[1], NL), JoinLines(Tail(parts)))

\* text.split("\n")
RECURSIVE SplitAcc(_, _, _)
SplitAcc(s, cur, acc) ==
    IF s = <<>> THEN Append(acc, cur)
    ELSE IF s[1].ch = "\n"
         THEN SplitAcc(Tail(s), <<>>,
                       Append(acc, cur) \o [j \in 1..(s[1].n - 1) |-> <<>>])
         ELSE SplitAcc(Tail(s), Append(cur, s[1]), acc)

SplitLines(s) == SplitAcc(s, <<>>, <<>>)

\* p.strip().startswith(("-", "*"))
IsBulletLine(p) == LET t == Strip(p) IN t # <<>> /\ t[1].ch \in {"-", "*"}

RECURSIVE CountBullets(_)
CountBullets(parts) ==
    IF parts = <<>> THEN 0
    ELSE (IF IsBulletLine(parts[1]) THEN 1 ELSE 0) + CountBullets(Tail(parts))

Min(a, b) == IF a <= b THEN a ELSE b

\* len(bullets), bullets = [p for p in parts if ...][:3]
NumBullets(parts) == Min(MaxBullets, CountBullets(parts))

\* "\n".join(parts[len(bullets):]).strip()
ParagraphAfter(parts, nb) ==
    Strip(JoinLines(SubSeq(parts, nb + 1, Len(parts))))

ExtractParagraph(parts) == ParagraphAfter(parts, NumBullets(parts))

\* memory_paragraph, with the fallback to state["memory"]
NewMemory(parts, memory) ==
    LET memory_paragraph == ExtractParagraph(parts)
    IN  IF memory_paragraph = <<>> THEN memory ELSE memory_paragraph

\* clipped = raw[:max_tool_chars]
Clip(raw) == Prefix(raw, max_tool_chars)

\* --------------------------------------------------------------- messages
\* content of a message: free text, or the compactor's stub
\* "[tool_output_compacted len={num} chars]"
Text(s) == [fmt |-> "text", text |-> s, num |-> 0]
Stub(len) == [fmt |-> "stub", text |-> <<>>, num |-> len]

\* number of decimal digits of k >= 0
RECURSIVE Digits(_)
Digits(k) == IF k < 10 THEN 1 ELSE 1 + Digits(k \div 10)

\* the string of a content; content or ""
RawOf(content) ==
    IF content.fmt = "stub"
    THEN <<Run("[tool_output_compacted len=", 27),
           Run("9", Digits(content.num)), Run(" chars]", 7)>>
    ELSE content.text

HumanMessage(c) ==
    [type |-> "human", content |-> c, tool_calls |-> <<>>,
     tool_call_id |-> 0, call |-> "none"]

\* call names the model call that produced the response
AIMessage(stage, c, calls) ==
    [type |-> "ai", content |-> c, tool_calls |-> calls,
     tool_call_id |-> 0, call |-> stage]

ToolMessage(c, id) ==
    [type |-> "tool", content |-> c, tool_calls |-> <<>>,
     tool_call_id |-> id, call |-> "none"]

IsToolMessage(m) == m.type = "tool"

\* [m for m in state["messages"] if isinstance(m, ToolMessage)]
ToolMsgs(msgs) == SelectSeq(msgs, IsToolMessage)

\* ------------------------------------------------------------------ tools
TOOLS == {"fetch_annual_report", "run_monte_carlo", "quick_math"}

\* the outcome of a tool call: a returned string, or an exception
Returned(s) == [raised |-> FALSE, value |-> s]
Raised == [raised |-> TRUE, value |-> <<>>]

\* f"error: {e}": the 7 characters "error: ", then the exception's text
ErrorMarker == <<Run("error: ", 7), Run("e", 12)>>

IsErrorMarker(s) == s # <<>> /\ s[1] = Run("error: ", 7)

\* str(eval(expr)) when eval succeeds
MathResults == { <<Run("9", 1)>> }

\* quick_math without its try/except
quick_math_unguarded(ok, result) == IF ok THEN Returned(result) ELSE Raised

\* quick_math: the result, or the error marker when eval raises
quick_math(ok, result) == IF ok THEN Returned(result) ELSE Returned(ErrorMarker)

\* the outcomes of a tool
ToolOutputs(name) ==
    IF name = "fetch_annual_report" THEN { Returned(<<Run("x", ReportLen)>>) }
    ELSE IF name = "run_monte_carlo" THEN { Returned(<<Run("m", MonteCarloLen)>>) }
    ELSE { quick_math(ok, r) : ok \in BOOLEAN, r \in MathResults }

\* ------------------------------------------------- summarization responses
RespLines ==
    { <<>>,                                          \* blank line
      <<Run("-", 1), Run("a", 3)>>,                  \* "-aaa"
      <<Run(" ", 2), Run("*", 1), Run("a", 3)>>,     \* "  *aaa"
      <<Run(" ", 1), Run("a", 10), Run(" ", 1)>>,    \* " aaaaaaaaaa "
      <<Run("a", max_memory_chars + 1)>> }           \* over-long line

\* resp.content of a summarization call: up to MaxRespLines lines
Responses ==
    { JoinLines(ls) : ls \in UNION { [1..k -> RespLines] : k \in 1..MaxRespLines } }

\* ------------------------------------------------------------------ state
VARIABLES
    pc,          \* node to run next: "planner", "tools", "compact";
                 \* "done" after END; "aborted" when a call raised
    messages,    \* state["messages"]
    memory,      \* state["memory"]
    i,           \* state["i"]
    urls,        \* state["urls"]
    llmCalls,    \* number of llm.invoke calls made so far
    abortStage,  \* stage whose exception ended the run, or "none"
    nextId,      \* next tool_call_id
    fed,         \* fed[id]: summarization calls given the output of call id
    lastCall,    \* input of the last llm.invoke that returned
    progress,    \* common._progress, the module-level dict
    other,       \* node and index of a second run of main in the same process
    clipIn,      \* clipping on its own: the raw string,
    clipMax,     \* the bound,
    clipOut,     \* the clipped string,
    clipPc       \* and how often the clip was applied

runVars == <<pc, messages, memory, i, urls, llmCalls, abortStage, nextId, fed,
             lastCall>>

clipVars == <<clipIn, clipMax, clipOut, clipPc>>

vars == <<pc, messages, memory, i, urls, llmCalls, abortStage, nextId, fed,
          lastCall, progress, other, clipIn, clipMax, clipOut, clipPc>>

Last(s) == s[Len(s)]

\* set_progress
set_progress(current, total, company) ==
    [current |-> current, total |-> total, company |-> company]

\* the company of set_progress(0, len(companies)): ""
NoCompany == 0

\* the progress bookkeeping of fetch_annual_report
fetch_annual_report(prog, company) ==
    IF prog.company # company
    THEN [prog EXCEPT !.current = @ + 1, !.company = company]
    ELSE prog

\* _progress after the tools of the calls have run
RECURSIVE ProgressAfter(_, _)
ProgressAfter(prog, calls) ==
    IF calls = <<>> THEN prog
    ELSE ProgressAfter(
            IF calls[1].name = "fetch_annual_report"
            THEN fetch_annual_report(prog, calls[1].arg) ELSE prog,
            Tail(calls))

\* no llm.invoke yet
NoCall ==
    [stage |-> "none", nhist |-> 0, memory |-> <<>>, clipped |-> <<>>,
     tools |-> FALSE]

\* llm_with_tools.invoke([SystemMessage] + state["messages"] + [user])
PlanningInput(msgs, mem) ==
    [stage |-> "planning", nhist |-> Len(msgs), memory |-> mem,
     clipped |-> <<>>, tools |-> TRUE]

\* llm.invoke([SystemMessage, user]) of the synthesis, given the history too
SynthesisInput_with_history(msgs, mem) ==
    [stage |-> "synthesis", nhist |-> Len(msgs), memory |-> mem,
     clipped |-> <<>>, tools |-> FALSE]

\* llm.invoke([SystemMessage, user]) of the synthesis
SynthesisInput(msgs, mem) ==
    [stage |-> "synthesis", nhist |-> 0, memory |-> mem,
     clipped |-> <<>>, tools |-> FALSE]

\* llm.invoke([SystemMessage, user]) of the compactor
CompactionInput(mem, clipped) ==
    [stage |-> "compaction", nhist |-> 0, memory |-> mem,
     clipped |-> clipped, tools |-> FALSE]

\* the second run has not started; the clip is not exercised
OtherIdle == [pc |-> "planner", i |-> 0]

ClipIdle ==
    /\ clipIn = <<>>
    /\ clipMax = 0
    /\ clipOut = <<>>
    /\ clipPc = "idle"

\* set_progress(0, len(companies));
\* app.invoke({"messages": [], "memory": "", "i": 0, "urls": companies})
Init ==
    /\ pc = "planner"
    /\ messages = <<>>
    /\ memory = EmptyStr
    /\ i = 0
    /\ urls \in { [k \in 1..n |-> k] : n \in 0..MaxN }
    /\ llmCalls = 0
    /\ abortStage = "none"
    /\ nextId = 1
    /\ fed = <<>>
    /\ lastCall = NoCall
    /\ progress = set_progress(0, Len(urls), NoCompany)
    /\ other = OtherIdle
    /\ ClipIdle

\* route_after_planner with its test inverted
route_after_planner_inverted(msgs) ==
    IF msgs[Len(msgs)].tool_calls = <<>> THEN "tools" ELSE "end"

\* route_after_planner
route_after_planner(msgs) ==
    IF Last(msgs).tool_calls # <<>> THEN "tools" ELSE "end"

\* the "end" edge wired back to the planner
AfterPlanner_loop(msgs) ==
    IF route_after_planner(msgs) = "tools" THEN "tools" ELSE "planner"

\* add_conditional_edges("planner", ..., {"tools": "tools", "end": END})
AfterPlanner(msgs) ==
    IF route_after_planner(msgs) = "tools" THEN "tools" ELSE "done"

\* the branch test finishing one unit early
PlannerFinished_early(idx, us) == idx + 1 >= Len(us)

\* the branch test of planner_node._node
PlannerFinished(idx, us) == idx >= Len(us)

\* an llm.invoke that raises (after the client's retries) ends app.invoke
Abort(stage, calls) ==
    /\ pc' = "aborted"
    /\ abortStage' = stage
    /\ llmCalls' = llmCalls + calls
    /\ UNCHANGED <<messages, memory, i, urls, nextId, fed, lastCall,
                   other, clipVars>>

\* the planner advancing state["i"] itself
PlannerIndex_advance(idx) == idx + 1

\* state["i"] after the planner, whose return value names "messages" only
PlannerIndex(idx) == idx

\* planner_node._node, i >= len(urls): the synthesis call
PlannerSynthesize ==
    /\ pc = "planner"
    /\ PlannerFinished(i, urls)
    /\ LET resp == AIMessage("synthesis", Text(<<Run("a", 10)>>), <<>>)
           new == Append(messages, resp)
       IN  /\ messages' = new
           /\ pc' = AfterPlanner(new)
    /\ llmCalls' = llmCalls + 1
    /\ lastCall' = SynthesisInput(messages, memory)
    /\ i' = PlannerIndex(i)
    /\ UNCHANGED <<memory, urls, abortStage, nextId, fed, progress,
                   other, clipVars>>

PlannerSynthesizeFails ==
    /\ pc = "planner"
    /\ PlannerFinished(i, urls)
    /\ Abort("synthesis", 1)
    /\ UNCHANGED progress

\* the planning prompt: the company and the memory it embeds
PlanPrompt(company, mem) == [fmt |-> "step", text |-> mem, num |-> company]

\* planner_node._node, i < len(urls): the planning call, whose response
\* requests k tools
PlannerPlan ==
    /\ pc = "planner"
    /\ ~PlannerFinished(i, urls)
    /\ \E k \in 0..MaxToolCalls :
       \E names \in [1..k -> TOOLS] :
          LET calls == [j \in 1..k |->
                          [name |-> names[j], id |-> nextId + j - 1,
                           arg |-> urls[i + 1]]]
              user == HumanMessage(PlanPrompt(urls[i + 1], memory))
              resp == AIMessage("planning", Text(<<>>), calls)
              new == messages \o <<user, resp>>
          IN  /\ messages' = new
              /\ pc' = AfterPlanner(new)
              /\ nextId' = nextId + k
              /\ fed' = fed \o [j \in 1..k |-> 0]
    /\ llmCalls' = llmCalls + 1
    /\ lastCall' = PlanningInput(messages, memory)
    /\ progress' = set_progress(i + 1, Len(urls), urls[i + 1])
    /\ i' = PlannerIndex(i)
    /\ UNCHANGED <<memory, urls, abortStage, other, clipVars>>

\* set_progress has run when the planning call raises
PlannerPlanFails ==
    /\ pc = "planner"
    /\ ~PlannerFinished(i, urls)
    /\ Abort("planning", 1)
    /\ progress' = set_progress(i + 1, Len(urls), urls[i + 1])

\* the tools node's messages appended to the history instead
ToolNodeWrite_append(msgs, outputs) == msgs \o outputs

\* what the tools node leaves in state["messages"]: ToolNode returns
\* {"messages": [ToolMessages]} and AgentState.messages has no reducer, so
\* the returned list replaces the history (as the lists returned by the
\* planner and the compactor do)
ToolNodeWrite(msgs, outputs) == outputs

\* ToolNode(TOOLS): runs every tool call of the last message
\* an exception of a tool leaves the node and ends app.invoke
tool_node ==
    /\ pc = "tools"
    /\ LET calls == Last(messages).tool_calls
       IN  \E outs \in [1..Len(calls) -> UNION { ToolOutputs(t) : t \in TOOLS }] :
             /\ \A j \in 1..Len(calls) : outs[j] \in ToolOutputs(calls[j].name)
             /\ progress' = ProgressAfter(progress, calls)
             /\ IF \E j \in 1..Len(calls) : outs[j].raised
                THEN Abort("tools", 0)
                ELSE /\ messages' = ToolNodeWrite(messages,
                            [j \in 1..Len(calls) |->
                                ToolMessage(Text(outs[j].value), calls[j].id)])
                     /\ pc' = "compact"
                     /\ UNCHANGED <<memory, i, urls, llmCalls, abortStage,
                                    nextId, fed, lastCall, other, clipVars>>

\* the stub written for every ToolMessage
StubFor(m, raw) == ToolMessage(Stub(StrLen(raw)), m.tool_call_id)

\* new_messages with only the last ToolMessage replaced
Stubbed_last_only(msgs, raw) ==
    [j \in 1..Len(msgs) |->
        IF IsToolMessage(msgs[j]) /\ (\A k \in (j + 1)..Len(msgs) : ~IsToolMessage(msgs[k]))
        THEN StubFor(msgs[j], raw) ELSE msgs[j]]

\* new_messages
Stubbed(msgs, raw) ==
    [j \in 1..Len(msgs) |->
        IF IsToolMessage(msgs[j]) THEN StubFor(msgs[j], raw) ELSE msgs[j]]

\* the tool messages whose output the summarization call is given
FedMsgs(tool_msgs) == <<Last(tool_msgs)>>

\* state["i"] left as it is
NextIndex_stuck(idx) == idx

\* state["i"] + 2
NextIndex_skip(idx) == idx + 2

\* one llm.invoke per ToolMessage instead
CompactorCalls_per_tool(tool_msgs) == Len(tool_msgs)

\* llm.invoke calls of one run of the compactor
CompactorCalls(tool_msgs) == 1

\* state["i"] + 1
NextIndex(idx) == idx + 1

\* memory_compactor_node._node
memory_compactor_node ==
    /\ pc = "compact"
    /\ LET tool_msgs == ToolMsgs(messages)
       IN  IF tool_msgs = <<>>
           THEN /\ pc' = "planner"
                /\ UNCHANGED <<messages, memory, i, urls, llmCalls,
                               abortStage, nextId, fed, lastCall, progress,
                               other, clipVars>>
           ELSE LET last_tool == Last(tool_msgs)
                    raw == RawOf(last_tool.content)
                    clipped == Clip(raw)
                IN  \E text \in Responses :
                      LET resp == AIMessage("compaction", Text(text), <<>>)
                          parts == SplitLines(text)
                      IN  /\ messages' = Append(Stubbed(messages, raw), resp)
                          /\ memory' = NewMemory(parts, memory)
                          /\ i' = NextIndex(i)
                          /\ pc' = "planner"
                          /\ llmCalls' = llmCalls + CompactorCalls(tool_msgs)
                          /\ fed' = [id \in DOMAIN fed |->
                                       IF \E j \in 1..Len(FedMsgs(tool_msgs)) :
                                            FedMsgs(tool_msgs)[j].tool_call_id = id
                                       THEN fed[id] + 1 ELSE fed[id]]
                          /\ lastCall' = CompactionInput(memory, clipped)
                          /\ UNCHANGED <<urls, abortStage, nextId, progress,
                                         other, clipVars>>

\* the summarization call raises
CompactorCallFails ==
    /\ pc = "compact"
    /\ ToolMsgs(messages) # <<>>
    /\ Abort("compaction", 1)
    /\ UNCHANGED progress

Next ==
    \/ PlannerSynthesize
    \/ PlannerSynthesizeFails
    \/ PlannerPlan
    \/ PlannerPlanFails
    \/ tool_node
    \/ memory_compactor_node
    \/ CompactorCallFails

Spec == Init /\ [][Next]_vars

\* ------------------------------------------- a second run, same process
\* planner_node._node of the second run (same companies): set_progress
OtherPlanner ==
    /\ other.pc = "planner"
    /\ other.i < Len(urls)
    /\ progress' = set_progress(other.i + 1, Len(urls), urls[other.i + 1])
    /\ other' = [other EXCEPT !.pc = "tools"]
    /\ UNCHANGED <<runVars, clipVars>>

\* the second run's tools node calling fetch_annual_report for its company,
\* followed by its compactor: i + 1
OtherToolsAndCompact ==
    /\ other.pc = "tools"
    /\ progress' = fetch_annual_report(progress, urls[other.i + 1])
    /\ other' = [pc |-> "planner", i |-> other.i + 1]
    /\ UNCHANGED <<runVars, clipVars>>

ConcNext ==
    \/ PlannerSynthesize
    \/ PlannerSynthesizeFails
    \/ PlannerPlan
    \/ PlannerPlanFails
    \/ tool_node
    \/ memory_compactor_node
    \/ CompactorCallFails
    \/ OtherPlanner
    \/ OtherToolsAndCompact

\* two runs of main interleaved
ConcSpec == Init /\ [][ConcNext]_vars

\* ------------------------------------------------- the clip on its own
ClipChars == {"x", "y"}

ClipLens == {1, max_tool_chars - 1, max_tool_chars, max_tool_chars + 1}

ClipBounds == {0, 1, max_tool_chars, 2 * max_tool_chars}

\* strings of at most MaxClipRuns runs, adjacent runs of different characters
ClipInputs ==
    { s \in UNION { [1..k -> [ch : ClipChars, n : ClipLens]] : k \in 0..MaxClipRuns } :
        \A j \in 1..(Len(s) - 1) : s[j].ch # s[j + 1].ch }

ClipInit ==
    /\ pc = "done"
    /\ messages = <<>>
    /\ memory = EmptyStr
    /\ i = 0
    /\ urls = <<>>
    /\ llmCalls = 0
    /\ abortStage = "none"
    /\ nextId = 1
    /\ fed = <<>>
    /\ lastCall = NoCall
    /\ progress = set_progress(0, 0, NoCompany)
    /\ other = OtherIdle
    /\ clipIn \in ClipInputs
    /\ clipMax \in ClipBounds
    /\ clipOut = <<>>
    /\ clipPc = "input"

\* clipped = raw[:max_tool_chars]
ClipOnce ==
    /\ clipPc = "input"
    /\ clipOut' = Prefix(clipIn, clipMax)
    /\ clipPc' = "clipped"
    /\ UNCHANGED <<runVars, progress, other, clipIn, clipMax>>

\* the clip applied to its own result
ClipAgain ==
    /\ clipPc = "clipped"
    /\ clipOut' = Prefix(clipOut, clipMax)
    /\ clipPc' = "reclipped"
    /\ UNCHANGED <<runVars, progress, other, clipIn, clipMax>>

ClipNext ==
    \/ ClipOnce
    \/ ClipAgain

ClipSpec == ClipInit /\ [][ClipNext]_vars

TypeOK ==
    /\ pc \in {"planner", "tools", "compact", "done", "aborted"}
    /\ i \in 0..MaxN
    /\ llmCalls \in Nat
    /\ abortStage \in {"none", "planning", "tools", "compaction", "synthesis"}

\* ----------------------------------------------------------------- claims
N == Len(urls)

IsStub(m) == m.content.fmt = "stub"

AllToolMessagesStubbed ==
    \A j \in 1..Len(messages) : IsToolMessage(messages[j]) => IsStub(messages[j])

\* a step of memory_compactor_node that made its summarization call
CompactionStep == pc = "compact" /\ pc' = "planner" /\ llmCalls' # llmCalls

\* a planning call for a pending unit returned without tool calls
PlanWithoutRequest ==
    /\ pc = "planner" /\ i < N /\ pc' # "aborted"
    /\ Len(messages') > Len(messages)
    /\ messages'[Len(messages')].tool_calls = <<>>

\* C1: after every compaction step len(memory) <= max_memory_chars, also
\* when the model over-produces.
C1_MemoryBounded == StrLen(memory) <= max_memory_chars

\* C2: in a run that went through all N work units without a failing call,
\* exactly 2N + 1 model calls were made, whatever the number of tool calls
\* of a planning response.
C2_CallCount == (pc = "done" /\ i = N) => llmCalls = 2 * N + 1

C2_Witness ==
    /\ pc = "done" /\ i = N /\ N >= 2
    /\ Len(ToolMsgs(messages)) >= 2

\* C3: outside the compactor's own input state, every ToolMessage of the
\* history is the stub; in particular whenever the planner composes a call.
C3_NoRawOutputSurvives ==
    (pc = "compact" \/ abortStage = "compaction") \/ AllToolMessagesStubbed

C3_Witness ==
    /\ pc = "planner" /\ i >= 1
    /\ Len(ToolMsgs(messages)) >= 2

NoParagraph(text) ==
    \A j \in 1..Len(SplitLines(text)) :
        \/ Strip(SplitLines(text)[j]) = <<>>
        \/ IsBulletLine(SplitLines(text)[j])

\* C6: a summarization response made only of bullet lines and blank lines
\* leaves the memory as it was.
C6_NoSilentErasure ==
    [][(CompactionStep /\ NoParagraph(messages'[Len(messages')].content.text))
         => memory' = memory]_vars

C8_ConsumedExactlyOnce ==
    pc = "planner" => \A id \in DOMAIN fed : fed[id] = 1

\* C9: a failing summarization call does not abort the run.
C9_CompactionFailureIsSoft == ~(pc = "aborted" /\ abortStage = "compaction")

\* C10: every step of the tools node, failing capability or not, goes on
\* to the compactor with one text ToolMessage per tool call, i unchanged,
\* and the compaction that follows increments i.
C10_CapabilityFailureIsData ==
    [][/\ pc = "tools" =>
            /\ pc' = "compact" /\ i' = i /\ memory' = memory
            /\ Len(ToolMsgs(messages')) = Len(messages[Len(messages)].tool_calls)
            /\ \A j \in 1..Len(messages') :
                  IsToolMessage(messages'[j]) => ~IsStub(messages'[j])
       /\ CompactionStep => (i' = i + 1)]_vars

\* a unit whose last capability failed was compacted, and the next unit
\* is being planned
C10_Witness ==
    /\ pc = "tools" /\ i >= 1
    /\ \E j \in 1..Len(messages) :
          /\ IsToolMessage(messages[j])
          /\ messages[j].content = Stub(StrLen(ErrorMarker))

\* the model calls whose response is in the history as a synthesis response
SynthesisResponses == { j \in 1..Len(messages) : messages[j].call = "synthesis" }

C12_NoWorkUnits ==
    N = 0 =>
        /\ pc \in {"planner", "done", "aborted"}
        /\ i = 0 /\ memory = <<>> /\ nextId = 1 /\ llmCalls <= 1
        /\ pc = "planner" => (llmCalls = 0 /\ messages = <<>>)
        /\ pc = "done" =>
              /\ llmCalls = 1
              /\ lastCall = SynthesisInput(<<>>, <<>>)
              /\ Len(messages) = 1
              /\ messages[1].call = "synthesis"
        /\ pc = "aborted" => abortStage = "synthesis"

C12_Witness == N = 0 /\ pc = "done" /\ lastCall.stage = "synthesis"

\* the k-th character of s
RECURSIVE CharAt(_, _)
CharAt(s, k) == IF k <= s[1].n THEN s[1].ch ELSE CharAt(Tail(s), k - s[1].n)

\* C13: the clipped string is the prefix of the raw string of length
\* min(len, bound); it is the raw string when that is short enough, and
\* clipping it again changes nothing.
C13_ClipIsPrefix ==
    /\ clipPc = "clipped" =>
          /\ StrLen(clipOut) = Min(StrLen(clipIn), clipMax)
          /\ \A k \in 1..StrLen(clipOut) : CharAt(clipOut, k) = CharAt(clipIn, k)
          /\ StrLen(clipIn) <= clipMax => clipOut = clipIn
          /\ clipMax = max_tool_chars => clipOut = Clip(clipIn)
    /\ clipPc = "reclipped" =>
          /\ StrLen(clipOut) = Min(StrLen(clipIn), clipMax)
          /\ clipOut = Prefix(clipIn, clipMax)

C13_Witness ==
    /\ clipPc = "reclipped"
    /\ clipMax = max_tool_chars
    /\ Len(clipIn) = 2 /\ StrLen(clipIn) > clipMax
    /\ StrLen(clipOut) = max_tool_chars

\* index of the last of the first MaxBullets bullet lines, 0 without bullet
LastBulletIndex(parts) ==
    LET idxs == { j \in 1..Len(parts) :
                    /\ IsBulletLine(parts[j])
                    /\ Cardinality({ h \in 1..j : IsBulletLine(parts[h]) }) <= MaxBullets }
    IN  IF idxs = {} THEN 0 ELSE CHOOSE j \in idxs : \A h \in idxs : h <= j

\* everything after the bullet lines
TextAfterBullets(parts) ==
    Strip(JoinLines(SubSeq(parts, LastBulletIndex(parts) + 1, Len(parts))))

\* C14: the paragraph stored by a compaction is the text after the (up to
\* 3) bullet lines of the response, wherever they are; the memory is kept
\* when there is no such text.
C14_ParagraphAfterBullets ==
    [][CompactionStep =>
        LET parts == SplitLines(messages'[Len(messages')].content.text)
        IN  memory' = IF TextAfterBullets(parts) = <<>> THEN memory
                      ELSE TextAfterBullets(parts)]_vars

\* C15: 0 <= i <= N; tools and compactor run only for an index below N, as
\* does the planning call; i changes only in the compactor, by +1, at
\* every compaction.
C15_IndexMonotone ==
    /\ [](/\ 0 <= i /\ i <= N
          /\ pc \in {"tools", "compact"} => i < N
          /\ lastCall.stage = "planning" => (i < N \/ pc = "aborted"))
    /\ [][/\ i' = i \/ (i' = i + 1 /\ pc = "compact")
          /\ CompactionStep => i' = i + 1]_vars

C15_Witness == pc = "planner" /\ i = N /\ N >= 2

\* C16: planner, synthesis and tools steps leave memory and i unchanged;
\* no step changes urls.
C16_Frame ==
    [][/\ pc # "compact" => (memory' = memory /\ i' = i)
       /\ urls' = urls]_vars

C16_Witness ==
    /\ pc = "done" /\ i = N /\ N >= 1
    /\ memory # <<>>

\* C17: the progress counter and company that the capabilities of a run
\* read are those the run's own planner has set, whatever a second run does
\* in between.
C17_RunsShareNothing ==
    pc = "tools" => progress = set_progress(i + 1, N, urls[i + 1])

\* planner -> tools -> compact cycles left, counted in nodes
Rank ==
    3 * (N - i) + (CASE pc = "planner" -> 3
                     [] pc = "tools" -> 2
                     [] pc = "compact" -> 1
                     [] OTHER -> 0)

\* C18: every step brings the run closer to END: a planner -> tools ->
\* compact cycle increases i, so that at most N cycles and one more planner
\* step are run.
C18_Terminates ==
    /\ [](Rank >= 0 /\ Rank <= 3 * N + 3)
    /\ [][Rank' < Rank]_vars

C18_Witness == pc = "done" /\ i = N /\ N >= 2 /\ llmCalls = 2 * N + 1

\* C19: the stub that replaces a ToolMessage holds the length of that
\* message's own content.
C19_StubHoldsOwnLength ==
    [][CompactionStep =>
        \A j \in 1..Len(messages) :
            IsToolMessage(messages[j]) =>
                messages'[j].content = Stub(StrLen(RawOf(messages[j].content)))]_vars
====
